---- MODULE Spec2Model ----
(***************************************************************************)
(* The cart of apizza: named orders persisted in a key-value store under   *)
(* the key prefix "user_order_", the Cart type of cmd/cart/cart.go, the    *)
(* helpers of cmd/internal/data/managedb.go and the topping-spec parser.   *)
(*                                                                         *)
(* Strings are sequences of one-character strings, so that the prefix      *)
(* tests, the prefix stripping and the colon splitting are computed as the *)
(* Go standard library computes them.                                      *)
(***************************************************************************)
EXTENDS Integers, Sequences, FiniteSets, TLC

VARIABLES
    db,            \* cache.DataBase: key -> stored bytes, for the keys present
    CurrentOrder,  \* Cart.CurrentOrder: NilOrder or an order
    address,       \* what c.finder.Address() returns: the live default address
    last,          \* the last operation, its arguments and what it returned
    now,           \* the clock, in units of time
    menuTS,        \* when the menu cache entry was last refreshed, or NoTS
    other,         \* CurrentOrder of the cart of a second process on the same store
    user,          \* dawg.UserProfile: Addresses, ServiceMethod and the memoized store
    lookups        \* how many store lookups the ordering API has served

vars == <<db, CurrentOrder, address, last, now, menuTS, other, user, lookups>>

\* what the cart of one process does not touch
clockVars == <<now, menuTS>>
userVars == <<user, lookups>>

(***************************************************************************)
(* Bounds                                                                  *)
(***************************************************************************)
MaxProducts == 2      \* longest product sequence of an order
MaxToppings == 2      \* longest list of topping specs given to one call
MaxFields == 4        \* most colon-delimited fields of a generated spec
MaxTime == 4          \* the clock stops here
MaxAddresses == 2     \* most addresses a user holds
MaxLookups == 3       \* most nearest-store queries sent to the ordering API

(***************************************************************************)
(* package strings                                                         *)
(***************************************************************************)
HasPrefix(s, prefix) ==
    /\ Len(s) >= Len(prefix)
    /\ SubSeq(s, 1, Len(prefix)) = prefix

\* strings.Index, 1-based; 0 when substr does not occur in s
Index(s, substr) ==
    LET at == {i \in 1..(Len(s) - Len(substr) + 1) :
                  SubSeq(s, i, i + Len(substr) - 1) = substr}
    IN IF at = {} THEN 0 ELSE CHOOSE i \in at : \A j \in at : i <= j

Contains(s, substr) == Index(s, substr) # 0

\* strings.ReplaceAll / strings.Replace(s, old, new, -1) for a non-empty old:
\* the non-overlapping occurrences of old, left to right
RECURSIVE ReplaceAll(_, _, _)
ReplaceAll(s, old, new) ==
    LET i == Index(s, old)
    IN IF i = 0 THEN s
       ELSE SubSeq(s, 1, i - 1) \o new
                \o ReplaceAll(SubSeq(s, i + Len(old), Len(s)), old, new)

\* strings.Split for a non-empty sep: never returns an empty list
RECURSIVE Split(_, _)
Split(s, sep) ==
    LET i == Index(s, sep)
    IN IF i = 0 THEN <<s>>
       ELSE <<SubSeq(s, 1, i - 1)>> \o Split(SubSeq(s, i + Len(sep), Len(s)), sep)

UpperLetters == <<"A","B","C","D","E","F","G","H","I","J","K","L","M",
                  "N","O","P","Q","R","S","T","U","V","W","X","Y","Z">>
LowerLetters == <<"a","b","c","d","e","f","g","h","i","j","k","l","m",
                  "n","o","p","q","r","s","t","u","v","w","x","y","z">>

ToLower(s) ==
    [i \in 1..Len(s) |->
        IF \E k \in 1..26 : UpperLetters[k] = s[i]
        THEN LowerLetters[CHOOSE k \in 1..26 : UpperLetters[k] = s[i]]
        ELSE s[i]]

(***************************************************************************)
(* Constants of the program                                                *)
(***************************************************************************)
OrderPrefix == <<"u","s","e","r","_","o","r","d","e","r","_">>
MenuKey == <<"m","e","n","u">>

ToppingFull == <<"1","/","1">>
ToppingLeft == <<"1","/","2">>
ToppingRight == <<"2","/","2">>
DefaultAmount == <<"1",".","0">>

\* error values; NoErr is Go's nil error
NoErr == "nil"
ErrNoCurrentOrder == "cart has no current order set"
ErrOrderNotFound == "could not find that order"
ErrCannotFindOrder == "cannot find order"
ErrToppingFormat == "incorrect topping format"
ErrNoProduct == "what product are these toppings being added to"
ErrCannotFindItem == "cannot find item in the order"
ErrVariantNotFound == "could not find variant"
ErrStore == "store error"
ErrPanic == "panic: nil pointer dereference"

(***************************************************************************)
(* The key-value store (pkg/cache): Get of an absent key yields no bytes   *)
(* and no error; Put overwrites; Delete of an absent key is not an error.  *)
(* fail is the store's own failure (I/O), an input of every call.          *)
(***************************************************************************)
DbGet(d, key, fail) ==
    IF fail THEN [raw |-> <<>>, err |-> ErrStore]
    ELSE IF key \in DOMAIN d THEN [raw |-> d[key], err |-> NoErr]
    ELSE [raw |-> <<>>, err |-> NoErr]

DbPut(d, key, raw, fail) ==
    IF fail THEN [db |-> d, err |-> ErrStore]
    ELSE [db |-> [k \in DOMAIN d \cup {key} |-> IF k = key THEN raw ELSE d[k]],
          err |-> NoErr]

DbDelete(d, key, fail) ==
    IF fail THEN [db |-> d, err |-> ErrStore]
    ELSE [db |-> [k \in DOMAIN d \ {key} |-> d[k]], err |-> NoErr]

DbMap(d, fail) ==
    IF fail THEN [mp |-> <<>>, err |-> ErrStore] ELSE [mp |-> d, err |-> NoErr]

(***************************************************************************)
(* dawg.Order and dawg.OrderProduct                                        *)
(***************************************************************************)
NilOrder == [nil |-> TRUE]
NilAddress == [nil |-> TRUE]

\* &dawg.Order{}
EmptyOrder == [OrderName |-> <<>>, Address |-> NilAddress, Products |-> <<>>]

\* order.Init() attaches the HTTP client; no field of the model changes
OrderInit(o) == o

SetName(o, name) == [o EXCEPT !.OrderName = name]

Name(o) == o.OrderName

\* dawg.StreetAddrFromAddress copies an Address into a *StreetAddr
StreetAddrFromAddress(a) == [Street |-> a.LineOne, CityName |-> a.City]

\* Order.AddProduct appends the item
AddProduct(o, itm) == [o EXCEPT !.Products = Append(@, itm)]

\* OrderProduct.AddTopping upserts Opts[code]: the latest placement wins
ItemAddTopping(p, code, side, amount) ==
    [p EXCEPT !.Opts = [c \in DOMAIN p.Opts \cup {code} |->
                           IF c = code THEN [side |-> side, amount |-> amount]
                           ELSE p.Opts[c]]]

NoOpts == [c \in {} |-> [side |-> <<>>, amount |-> <<>>]]

\* the catalog of the store and Menu.GetVariant
Menu == {<<"1","2","S","C","R","E","E","N">>, <<"P","1","0","I","R","E","P","V">>}

GetVariant(code) ==
    IF code \in Menu THEN [item |-> [Code |-> code, Opts |-> NoOpts], err |-> NoErr]
    ELSE [item |-> NilOrder, err |-> ErrVariantNotFound]

(***************************************************************************)
(* encoding/json on a dawg.Order: the name is not part of the document     *)
(* (it is the persistence key); the address snapshot and the products with *)
(* their options are.  The stored bytes are a one-element sequence holding *)
(* the document, so that len(raw) = 0 means no bytes.                      *)
(***************************************************************************)
Marshal(o) ==
    <<[Address |-> o.Address,
       Products |-> [i \in 1..Len(o.Products) |->
                        [Code |-> o.Products[i].Code,
                         Options |-> o.Products[i].Opts]]]>>

\* json.Unmarshal(raw, order) sets every field the document holds
Unmarshal(raw, o) ==
    [order |-> [o EXCEPT !.Address = raw[1].Address,
                         !.Products = [i \in 1..Len(raw[1].Products) |->
                                          [Code |-> raw[1].Products[i].Code,
                                           Opts |-> raw[1].Products[i].Options]]],
     err |-> NoErr]

(***************************************************************************)
(* cmd/internal/data/managedb.go                                           *)
(***************************************************************************)
\* SaveOrder writing under the bare name, the prefix forgotten
SaveOrderBareKey(o, d, fail) ==
    IF o = NilOrder THEN [db |-> d, err |-> ErrPanic]
    ELSE DbPut(d, Name(o), Marshal(o), fail)

\* the bytes stored for order name, <<>> when there are none
StoredOrder(d, name) ==
    IF OrderPrefix \o name \in DOMAIN d THEN d[OrderPrefix \o name] ELSE <<>>

\* a save that refuses to replace a document it did not write
SaveOrderNoOverwrite(o, d, fail) ==
    IF o = NilOrder THEN [db |-> d, err |-> ErrPanic]
    ELSE IF StoredOrder(d, Name(o)) \notin {<<>>, Marshal(o)}
         THEN [db |-> d, err |-> "conflict"]
         ELSE DbPut(d, OrderPrefix \o Name(o), Marshal(o), fail)

\* SaveOrder; with a nil order o.Name() dereferences nil and the call panics
SaveOrder(o, d, fail) ==
    IF o = NilOrder THEN [db |-> d, err |-> ErrPanic]
    ELSE DbPut(d, OrderPrefix \o Name(o), Marshal(o), fail)

DataGetOrder(name, d, fail) ==
    LET g == DbGet(d, OrderPrefix \o name, fail)
    IN IF g.err # NoErr THEN [order |-> NilOrder, err |-> g.err]
       ELSE IF g.raw = <<>> THEN [order |-> NilOrder, err |-> ErrCannotFindOrder]
       ELSE LET u == Unmarshal(g.raw, EmptyOrder)
            IN [order |-> SetName(u.order, name), err |-> NoErr]

\* the names PrintOrders prints; <<>> stands for "No orders saved."
PrintOrders(d, fail) ==
    LET m == DbMap(d, fail)
    IN IF m.err # NoErr THEN [names |-> {}, count |-> <<>>, err |-> m.err]
       ELSE LET keys == {k \in DOMAIN m.mp : Contains(k, OrderPrefix)}
                names == {ReplaceAll(k, OrderPrefix, <<>>) : k \in keys}
            IN [names |-> names,
                count |-> [n \in names |->
                    Cardinality({k \in keys : ReplaceAll(k, OrderPrefix, <<>>) = n})],
                err |-> NoErr]

(***************************************************************************)
(* cmd/cart/cart.go                                                        *)
(***************************************************************************)
\* GetOrder decoding the bytes into a variable it does not return
CartGetOrderFresh(d, name, addr, fail) ==
    LET g == DbGet(d, OrderPrefix \o name, fail)
        o1 == SetName(OrderInit(EmptyOrder), name)
        o2 == [o1 EXCEPT !.Address = StreetAddrFromAddress(addr)]
    IN IF g.err # NoErr THEN [order |-> NilOrder, err |-> g.err]
       ELSE IF Len(g.raw) = 0 THEN [order |-> NilOrder, err |-> ErrOrderNotFound]
       ELSE [order |-> o2, err |-> Unmarshal(g.raw, o2).err]

\* GetOrder without the test for no bytes: a missing order loads as a
\* fresh, empty order
CartGetOrderDefault(d, name, addr, fail) ==
    LET g == DbGet(d, OrderPrefix \o name, fail)
        o1 == SetName(OrderInit(EmptyOrder), name)
        o2 == [o1 EXCEPT !.Address = StreetAddrFromAddress(addr)]
    IN IF g.err # NoErr THEN [order |-> NilOrder, err |-> g.err]
       ELSE IF Len(g.raw) = 0 THEN [order |-> o2, err |-> NoErr]
       ELSE Unmarshal(g.raw, o2)


CartGetOrder(d, name, addr, fail) ==
    LET g == DbGet(d, OrderPrefix \o name, fail)
    IN IF g.err # NoErr THEN [order |-> NilOrder, err |-> g.err]
       ELSE IF Len(g.raw) = 0 THEN [order |-> NilOrder, err |-> ErrOrderNotFound]
       ELSE LET o1 == SetName(OrderInit(EmptyOrder), name)
                o2 == [o1 EXCEPT !.Address = StreetAddrFromAddress(addr)]
            IN Unmarshal(g.raw, o2)

\* DeleteOrder that reports a missing order
CartDeleteOrderStrict(d, name, fail) ==
    IF ~fail /\ (OrderPrefix \o name) \notin DOMAIN d
    THEN [db |-> d, err |-> ErrOrderNotFound]
    ELSE DbDelete(d, OrderPrefix \o name, fail)

\* DeleteOrder deleting the bare name, the prefix forgotten
CartDeleteOrderBareKey(d, name, fail) == DbDelete(d, name, fail)


CartDeleteOrder(d, name, fail) == DbDelete(d, OrderPrefix \o name, fail)

\* ListOrders without the prefix filter
ListOrdersAllKeys(d, fail) ==
    LET m == DbMap(d, fail)
    IN IF m.err # NoErr THEN [names |-> {}, count |-> <<>>, err |-> m.err]
       ELSE LET keys == DOMAIN m.mp
                names == {ReplaceAll(k, OrderPrefix, <<>>) : k \in keys}
            IN [names |-> names,
                count |-> [n \in names |->
                    Cardinality({k \in keys : ReplaceAll(k, OrderPrefix, <<>>) = n})],
                err |-> NoErr]

\* the list ListOrders returns, as the set of names and how often each occurs
ListOrders(d, fail) ==
    LET m == DbMap(d, fail)
    IN IF m.err # NoErr THEN [names |-> {}, count |-> <<>>, err |-> m.err]
       ELSE LET keys == {k \in DOMAIN m.mp : HasPrefix(k, OrderPrefix)}
                names == {ReplaceAll(k, OrderPrefix, <<>>) : k \in keys}
            IN [names |-> names,
                count |-> [n \in names |->
                    Cardinality({k \in keys : ReplaceAll(k, OrderPrefix, <<>>) = n})],
                err |-> NoErr]

getOrderItem(order, code) ==
    LET at == {i \in 1..Len(order.Products) : order.Products[i].Code = code}
    IN IF at = {} THEN 0 ELSE CHOOSE i \in at : \A j \in at : i <= j

\* addTopping without the test for surplus fields
addToppingAnyLength(topStr, p) ==
    LET topping == Split(topStr, <<":">>)
        side == IF Len(topping) = 1 THEN ToppingFull
                ELSE LET lower == ToLower(topping[2])
                     IN IF lower = <<"l","e","f","t">> THEN ToppingLeft
                        ELSE IF lower = <<"r","i","g","h","t">> THEN ToppingRight
                        ELSE IF lower = <<"f","u","l","l">> THEN ToppingFull
                        ELSE topping[2]
        amount == IF Len(topping) = 3 THEN topping[3] ELSE DefaultAmount
    IN IF topping[1] = <<>>
       THEN [item |-> p, err |-> ErrToppingFormat]
       ELSE [item |-> ItemAddTopping(p, topping[1], side, amount), err |-> NoErr]

\* addTopping matching the side without lower-casing it
addToppingCaseSensitive(topStr, p) ==
    LET topping == Split(topStr, <<":">>)
        side == IF Len(topping) = 1 THEN ToppingFull
                ELSE IF topping[2] = <<"l","e","f","t">> THEN ToppingLeft
                ELSE IF topping[2] = <<"r","i","g","h","t">> THEN ToppingRight
                ELSE IF topping[2] = <<"f","u","l","l">> THEN ToppingFull
                ELSE topping[2]
        amount == IF Len(topping) = 3 THEN topping[3] ELSE DefaultAmount
    IN IF topping[1] = <<>> \/ Len(topping) > 3
       THEN [item |-> p, err |-> ErrToppingFormat]
       ELSE [item |-> ItemAddTopping(p, topping[1], side, amount), err |-> NoErr]

\* addTopping: the item after the call, and the error
addTopping(topStr, p) ==
    LET topping == Split(topStr, <<":">>)
        side == IF Len(topping) = 1 THEN ToppingFull
                ELSE LET lower == ToLower(topping[2])
                     IN IF lower = <<"l","e","f","t">> THEN ToppingLeft
                        ELSE IF lower = <<"r","i","g","h","t">> THEN ToppingRight
                        ELSE IF lower = <<"f","u","l","l">> THEN ToppingFull
                        ELSE topping[2]
        amount == IF Len(topping) = 3 THEN topping[3] ELSE DefaultAmount
    IN IF topping[1] = <<>> \/ Len(topping) > 3
       THEN [item |-> p, err |-> ErrToppingFormat]
       ELSE [item |-> ItemAddTopping(p, topping[1], side, amount), err |-> NoErr]

\* addToppingsToOrder skipping the toppings of a product it cannot find
RECURSIVE addToppingsFromSkip(_, _, _, _)
addToppingsFromSkip(o, product, toppings, i) ==
    IF i > Len(toppings) THEN [order |-> o, err |-> NoErr]
    ELSE LET at == getOrderItem(o, product)
         IN IF at = 0 THEN addToppingsFromSkip(o, product, toppings, i + 1)
            ELSE LET r == addTopping(toppings[i], o.Products[at])
                 IN IF r.err # NoErr THEN [order |-> o, err |-> r.err]
                    ELSE addToppingsFromSkip([o EXCEPT !.Products[at] = r.item],
                                             product, toppings, i + 1)

\* addToppingsToOrder: the loop over toppings, from the i-th on
RECURSIVE addToppingsFrom(_, _, _, _)
addToppingsFrom(o, product, toppings, i) ==
    IF i > Len(toppings) THEN [order |-> o, err |-> NoErr]
    ELSE LET at == getOrderItem(o, product)
         IN IF at = 0 THEN [order |-> o, err |-> ErrCannotFindItem]
            ELSE LET r == addTopping(toppings[i], o.Products[at])
                 IN IF r.err # NoErr THEN [order |-> o, err |-> r.err]
                    ELSE addToppingsFrom([o EXCEPT !.Products[at] = r.item],
                                         product, toppings, i + 1)

addToppingsToOrder(o, product, toppings) ==
    IF product = <<>> THEN [order |-> o, err |-> ErrNoProduct]
    ELSE addToppingsFrom(o, product, toppings, 1)

CartAddToppings(cur, product, toppings) ==
    IF cur = NilOrder THEN [order |-> cur, err |-> ErrNoCurrentOrder]
    ELSE addToppingsToOrder(cur, product, toppings)

(***************************************************************************)
(* The menu cache refresh db.UpdateTS("menu", c): a no-op while the entry  *)
(* is fresh, a refetch that overwrites the menu key when it is stale, or   *)
(* an error when the refetch fails.  The clock and the network decide      *)
(* which: outcome is an input.                                             *)
(***************************************************************************)
MenuDoc == <<[Menu |-> Menu]>>

UpdateTS(d, key, outcome) ==
    IF outcome = "fresh" THEN [db |-> d, err |-> NoErr]
    ELSE IF outcome = "refetched" THEN DbPut(d, key, MenuDoc, FALSE)
    ELSE [db |-> d, err |-> ErrStore]

(***************************************************************************)
(* Inputs                                                                  *)
(***************************************************************************)
Addresses == {[LineOne |-> "1 Main St", City |-> "Here"],
              [LineOne |-> "2 High St", City |-> "There"]}

NameA == <<"a">>
\* order names that contain the reserved prefix, at the start and inside
NamePA == OrderPrefix \o <<"a">>
NameAPB == <<"a">> \o OrderPrefix \o <<"b">>
NameAB == <<"a","b">>

ListNames == {NameA, NameAB, NamePA, NameAPB}

UpdateOutcomes == {"fresh", "refetched", "failed"}

SeqsUpTo(S, n) == UNION {[1..k -> S] : k \in 0..n}

Code1 == <<"1","2","S","C","R","E","E","N">>
Code2 == <<"P","1","0","I","R","E","P","V">>
CodeX == <<"X">>
ProductCodes == {Code1, Code2, CodeX}

TopP == <<"P">>
TopK == <<"K">>

(***************************************************************************)
(* Operations                                                              *)
(***************************************************************************)
\* the configured address changes between two runs of the program
ConfigAddress(a) ==
    /\ a # address
    /\ address' = a
    /\ last' = [op |-> "ConfigAddress", name |-> <<>>, err |-> NoErr]
    /\ UNCHANGED <<db, CurrentOrder>>

\* addOrderCmd.Run: the products of the new order, the i-th with the i-th
\* topping when there is one
RECURSIVE newOrderProducts(_, _, _, _)
newOrderProducts(o, products, toppings, i) ==
    IF i > Len(products) THEN [order |-> o, err |-> NoErr]
    ELSE LET v == GetVariant(products[i])
         IN IF v.err # NoErr THEN [order |-> o, err |-> v.err]
            ELSE LET prod == IF i <= Len(toppings)
                             THEN ItemAddTopping(v.item, toppings[i],
                                                 ToppingFull, DefaultAmount)
                             ELSE v.item
                 IN newOrderProducts(AddProduct(o, prod), products, toppings, i + 1)

ErrNoName == "No order name"
ErrJustToppings == "cannot add just a toppings without products"

addOrderCmdRun(d, addr, name, products, toppings, fail) ==
    LET order == SetName([EmptyOrder EXCEPT !.Address = StreetAddrFromAddress(addr)],
                         name)
    IN IF name = <<>> THEN [db |-> d, err |-> ErrNoName]
       ELSE IF Len(products) > 0
       THEN LET r == newOrderProducts(order, products, toppings, 1)
            IN IF r.err # NoErr THEN [db |-> d, err |-> r.err]
               ELSE SaveOrder(r.order, d, fail)
       ELSE IF Len(toppings) > 0 THEN [db |-> d, err |-> ErrJustToppings]
       ELSE SaveOrder(order, d, fail)

NewOrder(name, products, toppings, fail) ==
    LET r == addOrderCmdRun(db, address, name, products, toppings, fail)
    IN /\ db' = r.db
       /\ last' = [op |-> "NewOrder", name |-> name, err |-> r.err]
       /\ UNCHANGED <<CurrentOrder, address>>

DeleteOrder(name, fail) ==
    LET r == CartDeleteOrder(db, name, fail)
    IN /\ db' = r.db
       /\ last' = [op |-> "DeleteOrder", name |-> name, err |-> r.err,
                   had |-> (OrderPrefix \o name) \in DOMAIN db]
       /\ UNCHANGED <<CurrentOrder, address>>

ListOrdersCall(fail) ==
    LET r == ListOrders(db, fail)
    IN /\ last' = [op |-> "ListOrders", name |-> <<>>, err |-> r.err,
                   names |-> r.names, count |-> r.count]
       /\ UNCHANGED <<db, CurrentOrder, address>>

PrintOrdersCall(fail) ==
    LET r == PrintOrders(db, fail)
    IN /\ last' = [op |-> "PrintOrders", name |-> <<>>, err |-> r.err,
                   names |-> r.names, count |-> r.count]
       /\ UNCHANGED <<db, CurrentOrder, address>>

\* the menu refresh on its own: a write to a key that is not an order key
RefreshMenu(outcome) ==
    LET r == UpdateTS(db, MenuKey, outcome)
    IN /\ db' = r.db
       /\ last' = [op |-> "UpdateTS", name |-> <<>>, err |-> r.err]
       /\ UNCHANGED <<CurrentOrder, address>>

SetCurrentOrder(name, fail) ==
    LET r == CartGetOrder(db, name, address, fail)
    IN /\ CurrentOrder' = r.order
       /\ last' = [op |-> "SetCurrentOrder", name |-> name, err |-> r.err]
       /\ UNCHANGED <<db, address>>

CartSave(cur, d, fail) == SaveOrder(cur, d, fail)

\* the name a call on the current order is about
CurrentName == IF CurrentOrder = NilOrder THEN <<>> ELSE Name(CurrentOrder)

\* Save on a cart with no current order panics: the process ends, and the
\* next run starts with no current order
Save(fail) ==
    LET r == CartSave(CurrentOrder, db, fail)
    IN /\ db' = r.db
       /\ CurrentOrder' = CurrentOrder
       /\ last' = [op |-> "Save", name |-> CurrentName, err |-> r.err]
       /\ UNCHANGED address

\* SaveAndReset keeping the current order when the save fails
SaveAndResetOnSuccess(fail) ==
    LET r == CartSave(CurrentOrder, db, fail)
    IN /\ db' = r.db
       /\ CurrentOrder' = IF r.err = NoErr THEN NilOrder ELSE CurrentOrder
       /\ last' = [op |-> "SaveAndReset", name |-> CurrentName, err |-> r.err]
       /\ UNCHANGED address

SaveAndReset(fail) ==
    LET r == CartSave(CurrentOrder, db, fail)
    IN /\ db' = r.db
       /\ CurrentOrder' = NilOrder
       /\ last' = [op |-> "SaveAndReset", name |-> CurrentName, err |-> r.err]
       /\ UNCHANGED address

AddToppings(product, toppings) ==
    LET r == CartAddToppings(CurrentOrder, product, toppings)
    IN /\ CurrentOrder' = r.order
       /\ last' = [op |-> "AddToppings", name |-> product, err |-> r.err,
                   n |-> Len(toppings)]
       /\ UNCHANGED <<db, address>>

\* addProducts: the loop over products, from the i-th on
RECURSIVE addProductsFrom(_, _, _)
addProductsFrom(o, products, i) ==
    IF i > Len(products) THEN [order |-> o, err |-> NoErr]
    ELSE LET v == GetVariant(products[i])
         IN IF v.err # NoErr THEN [order |-> o, err |-> v.err]
            ELSE addProductsFrom(AddProduct(o, v.item), products, i + 1)

addProducts(o, products) == addProductsFrom(o, products, 1)

\* AddProducts writing the order through to the store as it goes
CartAddProductsAutosave(cur, d, products, outcome) ==
    IF cur = NilOrder THEN [order |-> cur, db |-> d, err |-> ErrNoCurrentOrder]
    ELSE LET u == UpdateTS(d, MenuKey, outcome)
         IN IF u.err # NoErr THEN [order |-> cur, db |-> u.db, err |-> u.err]
            ELSE LET r == addProducts(cur, products)
                 IN [order |-> r.order, db |-> SaveOrder(r.order, u.db, FALSE).db,
                     err |-> r.err]

CartAddProducts(cur, d, products, outcome) ==
    IF cur = NilOrder THEN [order |-> cur, db |-> d, err |-> ErrNoCurrentOrder]
    ELSE LET u == UpdateTS(d, MenuKey, outcome)
         IN IF u.err # NoErr THEN [order |-> cur, db |-> u.db, err |-> u.err]
            ELSE LET r == addProducts(cur, products)
                 IN [order |-> r.order, db |-> u.db, err |-> r.err]

AddProducts(products, outcome) ==
    LET r == CartAddProducts(CurrentOrder, db, products, outcome)
    IN /\ CurrentOrder # NilOrder =>
              Len(CurrentOrder.Products) + Len(products) <= MaxProducts
       /\ CurrentOrder' = r.order
       /\ db' = r.db
       /\ last' = [op |-> "AddProducts", name |-> CurrentName, err |-> r.err]
       /\ UNCHANGED address

(***************************************************************************)
(* cmd/cart.go: the cart command.  c holds the flags: delete, topping,     *)
(* product, add and remove.  A run returns the store it leaves, its error, *)
(* whether it called SaveOrder, and the step it returned from.             *)
(***************************************************************************)
ErrMultipleOrders == "cannot handle multiple orders"
ErrNeedProduct == "must specify an item code with '--product' to edit an order's toppings"
ErrProductFlag == "the --product flag is only used along side the --topping flag"
ErrProductNotFound == "product not found in order"

\* delete(p.Opts, t)
ItemDeleteTopping(p, t) ==
    [p EXCEPT !.Opts = [c \in DOMAIN p.Opts \ {t} |-> p.Opts[c]]]

\* Order.RemoveProduct drops the first item with the code
OrderRemoveProduct(o, code) ==
    LET at == getOrderItem(o, code)
    IN IF at = 0 THEN [order |-> o, err |-> ErrProductNotFound]
       ELSE [order |-> [o EXCEPT !.Products =
                           SubSeq(@, 1, at - 1) \o SubSeq(@, at + 1, Len(@))],
             err |-> NoErr]

\* addTopping of the command: the error of p.AddTopping is dropped
cmdAddTopping(topStr, p) ==
    LET topping == Split(topStr, <<":">>)
        side == IF Len(topping) = 1 THEN ToppingFull ELSE topping[2]
        amount == IF Len(topping) = 3 THEN topping[3] ELSE DefaultAmount
    IN IF Len(topping) < 1 THEN [item |-> p, err |-> ErrToppingFormat]
       ELSE [item |-> ItemAddTopping(p, topping[1], side, amount), err |-> NoErr]

\* the loop of --topping --remove: the first item carrying the topping or
\* having the code loses the topping, and the loop breaks
cmdRemoveTopping(o, remove, product) ==
    LET hit == {i \in 1..Len(o.Products) :
                   remove \in DOMAIN o.Products[i].Opts \/ o.Products[i].Code = product}
    IN IF hit = {} THEN o
       ELSE LET at == CHOOSE i \in hit : \A j \in hit : i <= j
            IN [o EXCEPT !.Products[at] = ItemDeleteTopping(@, remove)]

cmdRemove(order, d, c, failPut) ==
    IF c.topping
    THEN LET s == SaveOrder(cmdRemoveTopping(order, c.remove, c.product), d, failPut)
         IN [db |-> s.db, err |-> s.err, saved |-> TRUE, stage |-> "save"]
    ELSE LET r == OrderRemoveProduct(order, c.remove)
         IN IF r.err # NoErr
            THEN [db |-> d, err |-> r.err, saved |-> FALSE, stage |-> "remove"]
            ELSE LET s == SaveOrder(r.order, d, failPut)
                 IN [db |-> s.db, err |-> s.err, saved |-> TRUE, stage |-> "save"]

RECURSIVE cmdAddToppingsFrom(_, _, _, _)
cmdAddToppingsFrom(o, product, tops, i) ==
    IF i > Len(tops) THEN [order |-> o, err |-> NoErr, stage |-> "save"]
    ELSE LET at == getOrderItem(o, product)
         IN IF at = 0 THEN [order |-> o, err |-> ErrCannotFindItem, stage |-> "locate"]
            ELSE LET r == cmdAddTopping(tops[i], o.Products[at])
                 IN IF r.err # NoErr THEN [order |-> o, err |-> r.err, stage |-> "parse"]
                    ELSE cmdAddToppingsFrom([o EXCEPT !.Products[at] = r.item],
                                            product, tops, i + 1)

RECURSIVE cmdAddProductsFrom(_, _, _)
cmdAddProductsFrom(o, products, i) ==
    IF i > Len(products) THEN [order |-> o, err |-> NoErr, stage |-> "save"]
    ELSE LET v == GetVariant(products[i])
         IN IF v.err # NoErr THEN [order |-> o, err |-> v.err, stage |-> "variant"]
            ELSE cmdAddProductsFrom(AddProduct(o, v.item), products, i + 1)

\* the add branch saving the order even when a step of its loop has failed
cmdAddSaveAnyway(order, d, c, outcome, failPut) ==
    LET u == UpdateTS(d, MenuKey, outcome)
    IN IF u.err # NoErr
       THEN [db |-> u.db, err |-> u.err, saved |-> FALSE, stage |-> "refresh"]
       ELSE LET r == IF c.topping THEN cmdAddToppingsFrom(order, c.product, c.add, 1)
                     ELSE cmdAddProductsFrom(order, c.add, 1)
                s == SaveOrder(r.order, u.db, failPut)
            IN IF r.err # NoErr
               THEN [db |-> s.db, err |-> r.err, saved |-> TRUE, stage |-> r.stage]
               ELSE [db |-> s.db, err |-> s.err, saved |-> TRUE, stage |-> "save"]

cmdAdd(order, d, c, outcome, failPut) ==
    LET u == UpdateTS(d, MenuKey, outcome)
    IN IF u.err # NoErr
       THEN [db |-> u.db, err |-> u.err, saved |-> FALSE, stage |-> "refresh"]
       ELSE LET r == IF c.topping THEN cmdAddToppingsFrom(order, c.product, c.add, 1)
                     ELSE cmdAddProductsFrom(order, c.add, 1)
            IN IF r.err # NoErr
               THEN [db |-> u.db, err |-> r.err, saved |-> FALSE, stage |-> r.stage]
               ELSE LET s == SaveOrder(r.order, u.db, failPut)
                    IN [db |-> s.db, err |-> s.err, saved |-> TRUE, stage |-> "save"]

cartCmdRun(d, args, c, outcome, failGet, failPut) ==
    IF Len(args) < 1
    THEN [db |-> d, err |-> PrintOrders(d, failGet).err, saved |-> FALSE, stage |-> "list"]
    ELSE IF Len(args) > 1
    THEN [db |-> d, err |-> ErrMultipleOrders, saved |-> FALSE, stage |-> "args"]
    ELSE IF c.topping /\ c.product = <<>>
    THEN [db |-> d, err |-> ErrNeedProduct, saved |-> FALSE, stage |-> "flags"]
    ELSE IF ~c.topping /\ c.product # <<>>
    THEN [db |-> d, err |-> ErrProductFlag, saved |-> FALSE, stage |-> "flags"]
    ELSE IF c.delete
    THEN LET r == DbDelete(d, OrderPrefix \o args[1], failPut)
         IN [db |-> r.db, err |-> r.err, saved |-> FALSE, stage |-> "delete"]
    ELSE LET g == DataGetOrder(args[1], d, failGet)
         IN IF g.err # NoErr
            THEN [db |-> d, err |-> g.err, saved |-> FALSE, stage |-> "load"]
            ELSE IF Len(c.remove) > 0 THEN cmdRemove(g.order, d, c, failPut)
            ELSE IF Len(c.add) > 0 THEN cmdAdd(g.order, d, c, outcome, failPut)
            ELSE [db |-> d, err |-> NoErr, saved |-> FALSE, stage |-> "print"]

\* one run of the cart command
CartCommand(args, c, outcome, failGet, failPut) ==
    LET r == cartCmdRun(db, args, c, outcome, failGet, failPut)
    IN /\ \A k \in DOMAIN r.db :
             HasPrefix(k, OrderPrefix) => Len(r.db[k][1].Products) <= MaxProducts
       /\ db' = r.db
       /\ last' = [op |-> "cart", name |-> IF Len(args) = 1 THEN args[1] ELSE <<>>,
                   err |-> r.err, saved |-> r.saved, stage |-> r.stage,
                   topping |-> c.topping, product |-> c.product,
                   remove |-> c.remove, add |-> c.add]
       /\ UNCHANGED <<CurrentOrder, address>>

\* dawg.Order.Validate asks the ordering API; what it answers is an input
Verdicts == {"ok", "warning", "error"}
ErrWarning == "dawg: warning"
ErrInvalid == "dawg: order is not valid"

OrderValidate(o, verdict) ==
    CASE verdict = "ok" -> NoErr
      [] verdict = "warning" -> ErrWarning
      [] OTHER -> ErrInvalid

IsWarning(err) == err = ErrWarning

CartValidateStrict(cur, verdict) ==
    IF cur = NilOrder THEN [err |-> ErrNoCurrentOrder, validated |-> FALSE]
    ELSE [err |-> OrderValidate(cur, verdict), validated |-> TRUE]

CartValidate(cur, verdict) ==
    IF cur = NilOrder THEN [err |-> ErrNoCurrentOrder, validated |-> FALSE]
    ELSE LET err == OrderValidate(cur, verdict)
         IN [err |-> IF IsWarning(err) THEN NoErr ELSE err, validated |-> TRUE]

CartValidateOrder(d, name, addr, fail, verdict) ==
    LET g == CartGetOrder(d, name, addr, fail)
    IN IF g.err # NoErr THEN [err |-> g.err, validated |-> FALSE]
       ELSE LET err == OrderValidate(g.order, verdict)
            IN [err |-> IF IsWarning(err) THEN NoErr ELSE err, validated |-> TRUE]

Validate(verdict) ==
    LET r == CartValidate(CurrentOrder, verdict)
    IN /\ last' = [op |-> "Validate", name |-> CurrentName, err |-> r.err,
                   validated |-> r.validated,
                   verdict |-> IF r.validated THEN verdict ELSE "none"]
       /\ UNCHANGED <<db, CurrentOrder, address>>

ValidateOrder(name, fail, verdict) ==
    LET r == CartValidateOrder(db, name, address, fail, verdict)
    IN /\ last' = [op |-> "ValidateOrder", name |-> name, err |-> r.err,
                   validated |-> r.validated,
                   verdict |-> IF r.validated THEN verdict ELSE "none"]
       /\ UNCHANGED <<db, CurrentOrder, address>>

\* a user as getTestUser returns it once its addresses are cleared: no
\* address, no service method, no memoized store
NilStore == [nil |-> TRUE]
NoTS == 0 - 1
NewUser == [Addresses |-> <<>>, ServiceMethod |-> "", store |-> NilStore]

Init ==
    /\ db = <<>>
    /\ CurrentOrder = NilOrder
    /\ address \in Addresses
    /\ last = [op |-> "init", name |-> <<>>, err |-> NoErr]
    /\ now = 0
    /\ menuTS = NoTS
    /\ other = NilOrder
    /\ user = NewUser
    /\ lookups = 0

(***************************************************************************)
(* Spec: saving, loading, deleting and listing orders with no products,    *)
(* under names that may contain the reserved prefix.                       *)
(***************************************************************************)
Next ==
    \/ /\ \E a \in Addresses : ConfigAddress(a)
       /\ UNCHANGED <<clockVars, other, userVars>>
    \/ /\ \E n \in ListNames, f \in BOOLEAN : NewOrder(n, <<>>, <<>>, f)
       /\ UNCHANGED <<clockVars, other, userVars>>
    \/ /\ \E n \in ListNames, f \in BOOLEAN : DeleteOrder(n, f)
       /\ UNCHANGED <<clockVars, other, userVars>>
    \/ /\ \E f \in BOOLEAN : ListOrdersCall(f)
       /\ UNCHANGED <<clockVars, other, userVars>>
    \/ /\ \E f \in BOOLEAN : PrintOrdersCall(f)
       /\ UNCHANGED <<clockVars, other, userVars>>
    \/ /\ \E o \in UpdateOutcomes : RefreshMenu(o)
       /\ UNCHANGED <<clockVars, other, userVars>>
    \/ /\ \E n \in ListNames, f \in BOOLEAN : SetCurrentOrder(n, f)
       /\ UNCHANGED <<clockVars, other, userVars>>
    \/ /\ \E f \in BOOLEAN : Save(f)
       /\ UNCHANGED <<clockVars, other, userVars>>
    \/ /\ \E f \in BOOLEAN : SaveAndReset(f)
       /\ UNCHANGED <<clockVars, other, userVars>>

Spec == Init /\ [][Next]_vars


(***************************************************************************)
(* SpecOrder: one order name; orders of up to MaxProducts products are     *)
(* built by the add command and by the cart, saved and loaded again.       *)
(***************************************************************************)
NextOrder ==
    \/ /\ \E ps \in SeqsUpTo(ProductCodes, MaxProducts), f \in BOOLEAN :
             NewOrder(NameA, ps, <<>>, f)
       /\ UNCHANGED <<clockVars, other, userVars>>
    \/ /\ \E f \in BOOLEAN : SetCurrentOrder(NameA, f)
       /\ UNCHANGED <<clockVars, other, userVars>>
    \/ /\ \E ps \in SeqsUpTo(ProductCodes, 1), o \in UpdateOutcomes : AddProducts(ps, o)
       /\ UNCHANGED <<clockVars, other, userVars>>
    \/ /\ \E c \in ProductCodes : AddToppings(c, <<TopP \o <<":","l","e","f","t">>>>)
       /\ UNCHANGED <<clockVars, other, userVars>>
    \/ /\ \E f \in BOOLEAN : Save(f)
       /\ UNCHANGED <<clockVars, other, userVars>>
    \/ /\ \E f \in BOOLEAN : SaveAndReset(f)
       /\ UNCHANGED <<clockVars, other, userVars>>
    \/ /\ \E f \in BOOLEAN : DeleteOrder(NameA, f)
       /\ UNCHANGED <<clockVars, other, userVars>>
    \/ /\ \E v \in Verdicts : Validate(v)
       /\ UNCHANGED <<clockVars, other, userVars>>
    \/ /\ \E f \in BOOLEAN, v \in Verdicts : ValidateOrder(NameA, f, v)
       /\ UNCHANGED <<clockVars, other, userVars>>

SpecOrder == Init /\ [][NextOrder]_vars

(***************************************************************************)
(* SpecTop: the topping-spec parser.  Specs are generated by joining       *)
(* fields with colons: an empty or a non-empty name, sides in several      *)
(* spellings, an amount, and surplus fields up to MaxFields fields in all. *)
(***************************************************************************)
Colon == <<":">>

RECURSIVE Join(_)
Join(fs) == IF Len(fs) = 1 THEN fs[1] ELSE fs[1] \o Colon \o Join(Tail(fs))

FieldNames == {<<>>, TopP}
FieldSides == {<<"l","e","f","t">>, <<"L","e","F","t">>, <<"R","I","G","H","T">>,
               <<"f","u","l","l">>, <<"x">>}
FieldAmounts == {<<"0",".","5">>}
FieldExtra == {<<"z">>}
FieldAt(i) == IF i = 1 THEN FieldNames ELSE IF i = 2 THEN FieldSides
              ELSE IF i = 3 THEN FieldAmounts ELSE FieldExtra

RECURSIVE FieldListsOfLen(_)
FieldListsOfLen(k) ==
    IF k = 1 THEN {<<f>> : f \in FieldAt(1)}
    ELSE {Append(fs, f) : fs \in FieldListsOfLen(k - 1), f \in FieldAt(k)}

FieldLists == UNION {FieldListsOfLen(k) : k \in 1..MaxFields}

TopSpecs == {Join(fs) : fs \in FieldLists}

\* the specs of the calls with several toppings: two valid, one invalid
ListSpecs == {TopP,
              TopP \o <<":","R","I","G","H","T",":","0",".","5">>,
              <<":","l","e","f","t">>}

\* the product lists of the orders the parser works on
TopProductLists == {<<Code1>>, <<Code1, Code2>>, <<Code2, Code2>>, <<CodeX>>}

NextTop ==
    \/ /\ \E ps \in TopProductLists, ts \in SeqsUpTo({TopK}, 1), f \in BOOLEAN :
             NewOrder(NameA, ps, ts, f)
       /\ UNCHANGED <<clockVars, other, userVars>>
    \/ /\ \E f \in BOOLEAN : SetCurrentOrder(NameA, f)
       /\ UNCHANGED <<clockVars, other, userVars>>
    \/ /\ \E c \in Menu \cup {<<>>},
             ts \in {<<t>> : t \in TopSpecs} \cup SeqsUpTo(ListSpecs, MaxToppings) :
             AddToppings(c, ts)
       /\ UNCHANGED <<clockVars, other, userVars>>

SpecTop == Init /\ [][NextTop]_vars

(***************************************************************************)
(* SpecMenu: the menu cache under a clock.  The refresh of AddProducts     *)
(* refetches when the entry is absent or older than MenuUpdateTime.        *)
(***************************************************************************)
MenuUpdateTime == 2

Stale(ts, t) == ts = NoTS \/ t - ts > MenuUpdateTime

\* what db.UpdateTS does at time t with an entry refreshed at ts
UpdateOutcome(ts, t, fetchFails) ==
    IF ~Stale(ts, t) THEN "fresh"
    ELSE IF fetchFails THEN "failed" ELSE "refetched"

MenuFresh == MenuKey \in DOMAIN db /\ ~Stale(menuTS, now)

Tick ==
    /\ now < MaxTime
    /\ now' = now + 1
    /\ last' = [op |-> "Tick", name |-> <<>>, err |-> NoErr]
    /\ UNCHANGED <<db, CurrentOrder, address, menuTS>>

AddProductsAt(products, fetchFails) ==
    LET o == UpdateOutcome(menuTS, now, fetchFails)
    IN /\ AddProducts(products, o)
       /\ menuTS' = IF CurrentOrder # NilOrder /\ o = "refetched" THEN now ELSE menuTS
       /\ UNCHANGED now

NextMenu ==
    \/ /\ \E ps \in SeqsUpTo(Menu, 1), f \in BOOLEAN : NewOrder(NameA, ps, <<>>, f)
       /\ UNCHANGED <<clockVars, other, userVars>>
    \/ /\ \E f \in BOOLEAN : SetCurrentOrder(NameA, f)
       /\ UNCHANGED <<clockVars, other, userVars>>
    \/ /\ Tick
       /\ UNCHANGED <<other, userVars>>
    \/ /\ \E ps \in SeqsUpTo(ProductCodes, 1), ff \in BOOLEAN : AddProductsAt(ps, ff)
       /\ UNCHANGED <<other, userVars>>
    \/ /\ \E c \in Menu, ts \in SeqsUpTo({TopP}, 1) : AddToppings(c, ts)
       /\ UNCHANGED <<clockVars, other, userVars>>

SpecMenu == Init /\ [][NextMenu]_vars

(***************************************************************************)
(* SpecTwo: two processes, each with its own Cart, sharing one store.      *)
(* CurrentOrder is the first process's current order, other the second's.  *)
(* A store operation is atomic; the steps of the two processes interleave. *)
(***************************************************************************)
OtherSetCurrentOrder(name, fail) ==
    LET r == CartGetOrder(db, name, address, fail)
    IN /\ other' = r.order
       /\ last' = [op |-> "OtherSetCurrentOrder", name |-> name, err |-> r.err]
       /\ UNCHANGED <<db, CurrentOrder, address>>

OtherAddProducts(products, outcome) ==
    /\ other # NilOrder => Len(other.Products) + Len(products) <= MaxProducts
    /\ LET r == CartAddProducts(other, db, products, outcome)
       IN /\ other' = r.order
          /\ db' = r.db
          /\ last' = [op |-> "OtherAddProducts", name |-> <<>>, err |-> r.err]
          /\ UNCHANGED <<CurrentOrder, address>>

OtherSave(fail) ==
    LET r == CartSave(other, db, fail)
    IN /\ db' = r.db
       /\ last' = [op |-> "OtherSave",
                   name |-> IF other = NilOrder THEN <<>> ELSE Name(other),
                   err |-> r.err, fail |-> fail,
                   prev |-> IF other = NilOrder THEN <<>>
                            ELSE StoredOrder(db, Name(other))]
       /\ UNCHANGED <<CurrentOrder, other, address>>

NextTwo ==
    \/ /\ \E f \in BOOLEAN : NewOrder(NameA, <<Code2>>, <<>>, f)
       /\ UNCHANGED <<clockVars, other, userVars>>
    \/ /\ \E f \in BOOLEAN : SetCurrentOrder(NameA, f)
       /\ UNCHANGED <<clockVars, other, userVars>>
    \/ /\ \E o \in UpdateOutcomes : AddProducts(<<Code1>>, o)
       /\ UNCHANGED <<clockVars, other, userVars>>
    \/ /\ \E f \in BOOLEAN : Save(f)
       /\ UNCHANGED <<clockVars, other, userVars>>
    \/ /\ \E f \in BOOLEAN : OtherSetCurrentOrder(NameA, f)
       /\ UNCHANGED <<clockVars, userVars>>
    \/ /\ \E o \in UpdateOutcomes : OtherAddProducts(<<Code2>>, o)
       /\ UNCHANGED <<clockVars, userVars>>
    \/ /\ \E f \in BOOLEAN : OtherSave(f)
       /\ UNCHANGED <<clockVars, userVars>>

SpecTwo == Init /\ [][NextTwo]_vars

(***************************************************************************)
(* SpecUser: a dawg user, its addresses, its service method and its        *)
(* memoized nearest store.  A store handle is the number of the query that *)
(* produced it, so two handles are the same store object exactly when      *)
(* they are equal.                                                         *)
(***************************************************************************)
Delivery == "Delivery"
Carryout == "Carryout"
ValidMethods == {Delivery, Carryout}
ServiceMethods == ValidMethods \cup {"", "not correct"}

ErrBadService == "BadServiceMethod"
ErrNoServiceMethod == "NoServiceMethod"
ErrNoAddress == "NoAddress"
ErrAPI == "ordering API request failed"

DefaultAddress(u) == IF Len(u.Addresses) = 0 THEN NilAddress ELSE u.Addresses[1]

UserAddAddress(u, a) == [u EXCEPT !.Addresses = Append(@, a)]

\* SetServiceMethod storing the value before it validates it
UserSetServiceMethodEager(u, m) ==
    [user |-> [u EXCEPT !.ServiceMethod = m],
     err |-> IF m \in ValidMethods THEN NoErr ELSE ErrBadService]

UserSetServiceMethod(u, m) ==
    IF m \notin ValidMethods THEN [user |-> u, err |-> ErrBadService]
    ELSE [user |-> [u EXCEPT !.ServiceMethod = m], err |-> NoErr]

\* the memo holds for the address and service method it was computed under
MemoValid(u, m) ==
    /\ u.store # NilStore
    /\ u.store.address = DefaultAddress(u)
    /\ u.store.service = m

\* NearestStore asking the ordering API on every call
UserNearestStoreNoMemo(u, n, m, apiFails) ==
    IF m \notin ValidMethods THEN [user |-> u, n |-> n, ret |-> NilStore, err |-> ErrBadService]
    ELSE IF Len(u.Addresses) = 0 THEN [user |-> u, n |-> n, ret |-> NilStore, err |-> ErrNoAddress]
    ELSE IF apiFails THEN [user |-> u, n |-> n + 1, ret |-> NilStore, err |-> ErrAPI]
    ELSE LET st == [id |-> n + 1, address |-> DefaultAddress(u), service |-> m]
         IN [user |-> [u EXCEPT !.store = st], n |-> n + 1, ret |-> st, err |-> NoErr]

\* n is the number of queries sent so far
UserNearestStore(u, n, m, apiFails) ==
    IF m \notin ValidMethods THEN [user |-> u, n |-> n, ret |-> NilStore, err |-> ErrBadService]
    ELSE IF Len(u.Addresses) = 0 THEN [user |-> u, n |-> n, ret |-> NilStore, err |-> ErrNoAddress]
    ELSE IF MemoValid(u, m) THEN [user |-> u, n |-> n, ret |-> u.store, err |-> NoErr]
    ELSE IF apiFails THEN [user |-> u, n |-> n + 1, ret |-> NilStore, err |-> ErrAPI]
    ELSE LET st == [id |-> n + 1, address |-> DefaultAddress(u), service |-> m]
         IN [user |-> [u EXCEPT !.store = st], n |-> n + 1, ret |-> st, err |-> NoErr]

\* the candidate stores, each annotated with the address and method used
UserStoresNearMe(u, apiFails) ==
    IF u.ServiceMethod = "" THEN [stores |-> {}, err |-> ErrNoServiceMethod]
    ELSE IF Len(u.Addresses) = 0 THEN [stores |-> {}, err |-> ErrNoAddress]
    ELSE IF apiFails THEN [stores |-> {}, err |-> ErrAPI]
    ELSE [stores |-> {[userAddress |-> DefaultAddress(u),
                       userService |-> u.ServiceMethod, rank |-> i] : i \in 1..2},
          err |-> NoErr]

\* user.Addresses = []*UserAddress{}
ClearAddresses ==
    /\ user' = [user EXCEPT !.Addresses = <<>>]
    /\ last' = [op |-> "ClearAddresses", name |-> <<>>, err |-> NoErr]
    /\ UNCHANGED lookups

AddAddress(a) ==
    /\ Len(user.Addresses) < MaxAddresses
    /\ user' = UserAddAddress(user, a)
    /\ last' = [op |-> "AddAddress", name |-> <<>>, err |-> NoErr]
    /\ UNCHANGED lookups

SetServiceMethod(m) ==
    LET r == UserSetServiceMethod(user, m)
    IN /\ user' = r.user
       /\ last' = [op |-> "SetServiceMethod", name |-> <<>>, err |-> r.err, m |-> m]
       /\ UNCHANGED lookups

NearestStore(m, apiFails) ==
    LET r == UserNearestStore(user, lookups, m, apiFails)
    IN /\ r.n <= MaxLookups
       /\ user' = r.user
       /\ lookups' = r.n
       /\ last' = [op |-> "NearestStore", name |-> <<>>, err |-> r.err, m |-> m,
                   ret |-> r.ret, queried |-> r.n # lookups]

StoresNearMe(apiFails) ==
    LET r == UserStoresNearMe(user, apiFails)
    IN /\ last' = [op |-> "StoresNearMe", name |-> <<>>, err |-> r.err,
                   stores |-> r.stores, prevOp |-> last.op, prevErr |-> last.err]
       /\ UNCHANGED <<user, lookups>>

NextUser ==
    \/ /\ ClearAddresses
       /\ UNCHANGED <<db, CurrentOrder, address, clockVars, other>>
    \/ /\ \E a \in Addresses : AddAddress(a)
       /\ UNCHANGED <<db, CurrentOrder, address, clockVars, other>>
    \/ /\ \E m \in ServiceMethods : SetServiceMethod(m)
       /\ UNCHANGED <<db, CurrentOrder, address, clockVars, other>>
    \/ /\ \E m \in ServiceMethods, f \in BOOLEAN : NearestStore(m, f)
       /\ UNCHANGED <<db, CurrentOrder, address, clockVars, other>>
    \/ /\ \E f \in BOOLEAN : StoresNearMe(f)
       /\ UNCHANGED <<db, CurrentOrder, address, clockVars, other>>

SpecUser == Init /\ [][NextUser]_vars

(***************************************************************************)
(* SpecFrame: two order names and every operation of the Cart, to see      *)
(* which operations touch which keys of the store.                         *)
(***************************************************************************)
FrameNames == {NameA, NameAB}

NextFrame ==
    \/ /\ \E n \in FrameNames, f \in BOOLEAN : NewOrder(n, <<Code2>>, <<>>, f)
       /\ UNCHANGED <<clockVars, other, userVars>>
    \/ /\ \E n \in FrameNames, f \in BOOLEAN : SetCurrentOrder(n, f)
       /\ UNCHANGED <<clockVars, other, userVars>>
    \/ /\ \E c \in {Code1, CodeX}, o \in UpdateOutcomes : AddProducts(<<c>>, o)
       /\ UNCHANGED <<clockVars, other, userVars>>
    \/ /\ \E c \in {Code1, CodeX} : AddToppings(c, <<TopP>>)
       /\ UNCHANGED <<clockVars, other, userVars>>
    \/ /\ \E v \in Verdicts : Validate(v)
       /\ UNCHANGED <<clockVars, other, userVars>>
    \/ /\ \E n \in FrameNames, f \in BOOLEAN, v \in Verdicts : ValidateOrder(n, f, v)
       /\ UNCHANGED <<clockVars, other, userVars>>
    \/ /\ \E f \in BOOLEAN : Save(f)
       /\ UNCHANGED <<clockVars, other, userVars>>
    \/ /\ \E f \in BOOLEAN : SaveAndReset(f)
       /\ UNCHANGED <<clockVars, other, userVars>>
    \/ /\ \E n \in FrameNames, f \in BOOLEAN : DeleteOrder(n, f)
       /\ UNCHANGED <<clockVars, other, userVars>>

SpecFrame == Init /\ [][NextFrame]_vars

(***************************************************************************)
(* SpecCmd: one order, created by the add command with up to two items,    *)
(* then edited, printed and deleted by runs of the cart command.           *)
(***************************************************************************)
Flags(del, top, prod, add, rem) ==
    [delete |-> del, topping |-> top, product |-> prod, add |-> add, remove |-> rem]
NoFlags == Flags(FALSE, FALSE, <<>>, <<>>, <<>>)

Left == <<":","l","e","f","t">>
CmdProductLists == {<<Code1>>, <<Code1, Code2>>, <<Code2, Code1>>}
CmdTopSpecs == {TopP, TopK \o Left}
NonEmptySeqsUpTo(S, n) == SeqsUpTo(S, n) \ {<<>>}

\* a run: its arguments, its flags, what the menu refresh finds, and
\* whether the store fails on the read and on the write
Run(args, c, outcome, failGet, failPut) ==
    [args |-> args, c |-> c, outcome |-> outcome, failGet |-> failGet, failPut |-> failPut]

\* cart (the listing) and cart a a
ListRuns == {Run(args, NoFlags, "fresh", fg, FALSE) :
                args \in {<<>>, <<NameA, NameA>>}, fg \in BOOLEAN}
\* --topping without --product, and --product without --topping
BadFlagRuns == {Run(<<NameA>>, c, "fresh", FALSE, FALSE) :
                   c \in {Flags(FALSE, TRUE, <<>>, <<>>, TopP),
                          Flags(FALSE, FALSE, Code1, <<Code1>>, <<>>)}}
DeleteRuns == {Run(<<NameA>>, Flags(TRUE, FALSE, <<>>, <<>>, <<>>), "fresh", FALSE, fp) :
                  fp \in BOOLEAN}
PrintRuns == {Run(<<NameA>>, NoFlags, "fresh", fg, FALSE) : fg \in BOOLEAN}
RemoveToppingRuns ==
    {Run(<<NameA>>, Flags(FALSE, TRUE, prod, <<>>, t), "fresh", FALSE, fp) :
        prod \in ProductCodes, t \in {TopP, TopK}, fp \in BOOLEAN}
RemoveProductRuns ==
    {Run(<<NameA>>, Flags(FALSE, FALSE, <<>>, <<>>, code), "fresh", FALSE, fp) :
        code \in {Code1, CodeX}, fp \in BOOLEAN}
AddToppingRuns ==
    {Run(<<NameA>>, Flags(FALSE, TRUE, prod, tops, <<>>), o, FALSE, fp) :
        prod \in {Code1, CodeX}, tops \in NonEmptySeqsUpTo(CmdTopSpecs, 2),
        o \in UpdateOutcomes, fp \in BOOLEAN}
AddProductRuns ==
    {Run(<<NameA>>, Flags(FALSE, FALSE, <<>>, ps, <<>>), o, FALSE, fp) :
        ps \in NonEmptySeqsUpTo({Code1, CodeX}, 2), o \in UpdateOutcomes, fp \in BOOLEAN}

Runs == ListRuns \cup BadFlagRuns \cup DeleteRuns \cup PrintRuns \cup RemoveToppingRuns
           \cup RemoveProductRuns \cup AddToppingRuns \cup AddProductRuns

NextCmd ==
    \/ /\ \E ps \in CmdProductLists, ts \in SeqsUpTo({TopP}, 2), f \in BOOLEAN :
             NewOrder(NameA, ps, ts, f)
       /\ UNCHANGED <<clockVars, other, userVars>>
    \/ /\ \E r \in Runs : CartCommand(r.args, r.c, r.outcome, r.failGet, r.failPut)
       /\ UNCHANGED <<clockVars, other, userVars>>

SpecCmd == Init /\ [][NextCmd]_vars

(***************************************************************************)
(* Claims                                                                  *)
(***************************************************************************)
\* the name n of an order key: the key is OrderPrefix \o n
NameOfKey(k) == SubSeq(k, Len(OrderPrefix) + 1, Len(k))

\* the names n whose key OrderPrefix \o n is present in the store
StoredNames(d) == {NameOfKey(k) : k \in {k \in DOMAIN d : HasPrefix(k, OrderPrefix)}}

\* no stored order name contains the prefix, and no other key does
NoPrefixInside(d) ==
    \A k \in DOMAIN d :
        IF HasPrefix(k, OrderPrefix) THEN ~Contains(NameOfKey(k), OrderPrefix)
        ELSE ~Contains(k, OrderPrefix)

Listed == last.op \in {"ListOrders", "PrintOrders"} /\ last.err = NoErr

\* C3 as stated: whatever the order names, a listing reports exactly the
\* names whose key is present, each once.
C3_ListsStoredNames ==
    Listed => /\ last.names = StoredNames(db)
              /\ \A n \in last.names : last.count[n] = 1

\* C3: when no stored order name (and no other key) contains the prefix,
\* ListOrders and PrintOrders report exactly the names n whose key
\* prefix+n is present, each once, and the menu key contributes no name.
C3_ListsStoredNamesNoPrefixInside ==
    Listed /\ NoPrefixInside(db) =>
        /\ last.names = StoredNames(db)
        /\ \A n \in last.names : last.count[n] = 1

C3_Witness ==
    /\ last.op = "PrintOrders" /\ last.err = NoErr
    /\ NoPrefixInside(db)
    /\ MenuKey \in DOMAIN db
    /\ last.names = {NameA, NameAB}

\* C4: DeleteOrder of a name whose key is absent returns no error and
\* leaves the store as it is, a second DeleteOrder of the same name leaves
\* the store of the first, and DeleteOrder returns an error only when the
\* store's Delete reports one.
C4_DeleteIdempotent ==
    /\ \A n \in ListNames :
          LET once == CartDeleteOrder(db, n, FALSE)
              twice == CartDeleteOrder(once.db, n, FALSE)
          IN /\ (OrderPrefix \o n) \notin DOMAIN db =>
                    once.err = NoErr /\ once.db = db
             /\ twice.err = NoErr /\ twice.db = once.db
             /\ \A f \in BOOLEAN :
                    CartDeleteOrder(db, n, f).err = DbDelete(db, OrderPrefix \o n, f).err
    /\ last.op = "DeleteOrder" /\ ~last.had /\ last.err # ErrStore =>
          last.err = NoErr

C4_Witness ==
    /\ last.op = "DeleteOrder" /\ ~last.had /\ last.err = NoErr
    /\ last.name = NameAB
    /\ (OrderPrefix \o NameA) \in DOMAIN db

\* C5 as stated: after a successful DeleteOrder(n), whatever the store
\* holds, ListOrders does not contain n.
C5_DeletedNotListed ==
    last.op = "DeleteOrder" /\ last.err = NoErr =>
        last.name \notin ListOrders(db, FALSE).names

Saves == {"NewOrder", "Save", "SaveAndReset"}

\* C5: while no stored order name contains the prefix, ListOrders does not
\* contain n after a successful DeleteOrder(n), and a name enters the
\* listing only by a successful save of an order of that name.
C5_DeletedNotListedNoPrefixInside ==
    [][NoPrefixInside(db') =>
          /\ last'.op = "DeleteOrder" /\ last'.err = NoErr =>
                 last'.name \notin ListOrders(db', FALSE).names
          /\ \A n \in ListOrders(db', FALSE).names \ ListOrders(db, FALSE).names :
                 last'.op \in Saves /\ last'.name = n /\ last'.err = NoErr]_vars

C5_Witness ==
    /\ last.op = "DeleteOrder" /\ last.err = NoErr /\ last.had
    /\ NoPrefixInside(db)
    /\ last.name = NameA
    /\ ListOrders(db, FALSE).names = {NameAB}

\* C1: a successful save of the current order under its name n, followed
\* by Cart.GetOrder(n) on the store the save left, returns an order named
\* n with the same product sequence and the same topping mappings.
C1_SaveLoadRoundTrip ==
    [][last'.op \in {"Save", "SaveAndReset"} /\ last'.err = NoErr =>
          LET r == CartGetOrder(db', Name(CurrentOrder), address', FALSE)
          IN /\ r.err = NoErr
             /\ Name(r.order) = Name(CurrentOrder)
             /\ r.order.Products = CurrentOrder.Products]_vars

C1_Witness ==
    /\ last.op = "Save" /\ last.err = NoErr
    /\ CurrentOrder # NilOrder
    /\ Len(CurrentOrder.Products) = 2
    /\ CurrentOrder.Products[1].Code # CurrentOrder.Products[2].Code
    /\ CurrentOrder.Products[2].Opts # NoOpts
    /\ MenuKey \in DOMAIN db
    /\ CartGetOrder(db, NameA, address, FALSE).order.Products = CurrentOrder.Products

\* C2 as stated: the order a successful load returns carries the live
\* default address, whatever address was persisted with it.
C2_LiveAddressOnLoad ==
    last.op = "SetCurrentOrder" /\ last.err = NoErr =>
        CurrentOrder.Address = StreetAddrFromAddress(address)

\* C6: loading a name whose key is absent fails with the order-not-found
\* error and yields no order, for Cart.GetOrder and for data.GetOrder, and
\* a failed SetCurrentOrder leaves the cart without a current order.
C6_MissingOrderIsAnError ==
    /\ \A n \in ListNames :
          (OrderPrefix \o n) \notin DOMAIN db =>
              /\ CartGetOrder(db, n, address, FALSE) =
                     [order |-> NilOrder, err |-> ErrOrderNotFound]
              /\ DataGetOrder(n, db, FALSE) =
                     [order |-> NilOrder, err |-> ErrCannotFindOrder]
    /\ last.op = "SetCurrentOrder" =>
          /\ last.err # NoErr => CurrentOrder = NilOrder
          /\ (OrderPrefix \o last.name) \notin DOMAIN db =>
                 last.err \in {ErrOrderNotFound, ErrStore}
          /\ last.err = ErrOrderNotFound =>
                 (OrderPrefix \o last.name) \notin DOMAIN db

C6_Witness ==
    /\ last.op = "SetCurrentOrder" /\ last.err = ErrOrderNotFound
    /\ last.name = NamePA
    /\ CurrentOrder = NilOrder
    /\ (OrderPrefix \o NameA) \in DOMAIN db

\* what the parser is given, read off the characters of the spec
NumColons(s) == Cardinality({i \in 1..Len(s) : s[i] = ":"})
EmptyNameField(s) == Len(s) = 0 \/ s[1] = ":"
AllToppingLists == {<<t>> : t \in TopSpecs} \cup SeqsUpTo(ListSpecs, MaxToppings)
CurrentItems ==
    IF CurrentOrder = NilOrder THEN {}
    ELSE {CurrentOrder.Products[i] : i \in 1..Len(CurrentOrder.Products)}

\* C7: addTopping fails with the topping-format error exactly when the
\* text before the first colon is empty or the spec has more than three
\* fields; when it fails the item is as before, and every other spec is
\* accepted.
C7_ParserRejectsExactly ==
    \A p \in CurrentItems, s \in TopSpecs :
        LET r == addTopping(s, p)
        IN /\ r.err \in {NoErr, ErrToppingFormat}
           /\ r.err = ErrToppingFormat <=> (EmptyNameField(s) \/ NumColons(s) > 2)
           /\ r.err # NoErr => r.item = p

C7_Witness ==
    /\ last.op = "AddToppings" /\ last.err = ErrToppingFormat /\ last.n = 1
    /\ \E p \in CurrentItems : p.Code = last.name /\ TopP \in DOMAIN p.Opts

\* the placement a list of fields asks for
ExpectedSide(fs) ==
    IF Len(fs) = 1 THEN ToppingFull
    ELSE IF fs[2] \in {<<"l","e","f","t">>, <<"L","e","F","t">>} THEN ToppingLeft
    ELSE IF fs[2] = <<"R","I","G","H","T">> THEN ToppingRight
    ELSE IF fs[2] = <<"f","u","l","l">> THEN ToppingFull
    ELSE fs[2]

\* C8: an accepted spec name[:side[:amount]] upserts the entry keyed by
\* name, with the placement the side asks for (whole without a side) and
\* the amount given ("1.0" without one); an entry the item already has
\* under that name is overwritten, and the other entries stay.
C8_ParsedEntry ==
    \A p \in CurrentItems, fs \in FieldLists :
        Len(fs) <= 3 /\ fs[1] # <<>> =>
            LET r == addTopping(Join(fs), p)
            IN /\ r.err = NoErr
               /\ r.item.Code = p.Code
               /\ DOMAIN r.item.Opts = DOMAIN p.Opts \cup {fs[1]}
               /\ r.item.Opts[fs[1]] =
                      [side |-> ExpectedSide(fs),
                       amount |-> IF Len(fs) = 3 THEN fs[3] ELSE DefaultAmount]
               /\ \A c \in DOMAIN p.Opts \ {fs[1]} : r.item.Opts[c] = p.Opts[c]

\* two specs for the same topping in one call: the second placement stays
C8_Witness ==
    /\ last.op = "AddToppings" /\ last.err = NoErr /\ last.n = 2
    /\ \E p \in CurrentItems :
          /\ p.Code = last.name
          /\ TopK \in DOMAIN p.Opts
          /\ p.Opts[TopP] = [side |-> ToppingRight, amount |-> <<"0",".","5">>]

\* C9 as stated: a call of AddToppings that returns the topping-format
\* error leaves the current order as it was before the call.
C9_NoPartialMutation ==
    [][last'.op = "AddToppings" /\ last'.err = ErrToppingFormat =>
          CurrentOrder' = CurrentOrder]_vars

\* C10 as stated: for a product code that matches no item, AddToppings
\* fails with the item-not-found error for every list of toppings and
\* leaves the order unchanged.
C10_AbsentProductFails ==
    CurrentOrder # NilOrder =>
        \A c \in ProductCodes \cup {<<>>}, ts \in AllToppingLists :
            getOrderItem(CurrentOrder, c) = 0 =>
                CartAddToppings(CurrentOrder, c, ts) =
                    [order |-> CurrentOrder, err |-> ErrCannotFindItem]

\* C10: for a non-empty product code that matches no item, AddToppings
\* fails with the item-not-found error for every non-empty list of
\* toppings; for the empty list it returns no error, for the empty code
\* the what-product error; the order is unchanged in each case.
C10_AbsentProductFailsNonEmpty ==
    CurrentOrder # NilOrder =>
        \A c \in ProductCodes \cup {<<>>}, ts \in AllToppingLists :
            getOrderItem(CurrentOrder, c) = 0 =>
                CartAddToppings(CurrentOrder, c, ts) =
                    [order |-> CurrentOrder,
                     err |-> IF c = <<>> THEN ErrNoProduct
                             ELSE IF ts = <<>> THEN NoErr
                             ELSE ErrCannotFindItem]

C10_Witness ==
    /\ last.op = "AddToppings" /\ last.err = ErrCannotFindItem /\ last.n = 2
    /\ last.name = Code2
    /\ CurrentOrder # NilOrder
    /\ Len(CurrentOrder.Products) = 1
    /\ getOrderItem(CurrentOrder, Code2) = 0

\* C11 as stated: AddProducts and AddToppings refresh the menu cache before
\* they touch the order, so whenever either changes the current order the
\* menu entry is present and no older than the threshold, and a failed
\* refresh leaves the order unchanged.
C11_MutationSeesFreshMenu ==
    [][last'.op \in {"AddProducts", "AddToppings"} =>
          /\ CurrentOrder' # CurrentOrder => MenuFresh'
          /\ last'.err = ErrStore => CurrentOrder' = CurrentOrder]_vars

\* the part of C11 about AddProducts alone
AddProductsSeesFreshMenu ==
    [][last'.op = "AddProducts" =>
          /\ CurrentOrder' # CurrentOrder => MenuFresh'
          /\ last'.err = ErrStore => CurrentOrder' = CurrentOrder]_vars

\* what a caller of Validate or ValidateOrder gets for a verdict of the
\* order's own Validate
ExpectedValidate(verdict) == IF verdict = "error" THEN ErrInvalid ELSE NoErr

\* C12: Validate and ValidateOrder return nil when the order's Validate
\* yields a warning or no error and return the error unchanged when it is a
\* hard one; Validate with no current order fails with ErrNoCurrentOrder
\* and validates nothing.
C12_WarningIsSuccess ==
    /\ last.op \in {"Validate", "ValidateOrder"} /\ last.validated =>
          last.err = ExpectedValidate(last.verdict)
    /\ last.op = "Validate" =>
          /\ last.validated <=> CurrentOrder # NilOrder
          /\ CurrentOrder = NilOrder => last.err = ErrNoCurrentOrder

C12_Witness ==
    /\ last.op = "Validate"
    /\ last.validated
    /\ last.verdict = "warning"
    /\ last.err = NoErr

\* C13: SaveOrder overwrites without conflict detection.  With two
\* processes on one store, a save fails only when the store itself fails,
\* whatever the other process has written in between, and after a save that
\* succeeds the value at prefix+n is the serialization of the saver's order;
\* no step other than a save of n changes that value.
C13_LastWriterWins ==
    [][/\ last'.op = "Save" /\ CurrentOrder # NilOrder =>
             /\ last'.err \in {NoErr, ErrStore}
             /\ last'.err = NoErr =>
                   StoredOrder(db', Name(CurrentOrder)) = Marshal(CurrentOrder)
       /\ last'.op = "OtherSave" /\ other # NilOrder =>
             /\ last'.err = NoErr <=> ~last'.fail
             /\ last'.err = NoErr =>
                   StoredOrder(db', Name(other)) = Marshal(other)
       /\ StoredOrder(db', NameA) # StoredOrder(db, NameA) =>
             last'.op \in {"NewOrder", "Save", "OtherSave"} /\ last'.err = NoErr]_vars

\* the second process has just overwritten what the first one saved: the
\* first process's product is no longer in the stored document
C13_Witness ==
    /\ last.op = "OtherSave" /\ last.err = NoErr
    /\ CurrentOrder # NilOrder /\ other # NilOrder
    /\ last.prev = Marshal(CurrentOrder)
    /\ StoredOrder(db, NameA) = Marshal(other)
    /\ \E i \in 1..Len(CurrentOrder.Products) : CurrentOrder.Products[i].Code = Code1
    /\ \A i \in 1..Len(other.Products) : other.Products[i].Code # Code1

\* C14: the memoized store is unset until the first NearestStore call; a
\* successful NearestStore(m) sets it and returns it; a further
\* NearestStore(m) under the address and service method the memo was
\* computed for returns the same handle and sends no query.
C14_NearestStoreMemoized ==
    [][/\ user.store = NilStore /\ user'.store # NilStore =>
             last'.op = "NearestStore" /\ last'.err = NoErr
       /\ last'.op = "NearestStore" /\ last'.err = NoErr =>
             user'.store # NilStore /\ last'.ret = user'.store
       /\ last'.op = "NearestStore" /\ MemoValid(user, last'.m) =>
             /\ last'.err = NoErr
             /\ last'.ret = user.store
             /\ user'.store = user.store
             /\ lookups' = lookups]_vars

\* two NearestStore calls in a row, the second answered by the memo
C14_Witness ==
    /\ last.op = "NearestStore" /\ last.err = NoErr
    /\ ~last.queried
    /\ last.ret = user.store
    /\ lookups = 1
    /\ user.store.id = 1
    /\ Len(user.Addresses) = MaxAddresses

\* C15: SetServiceMethod with a value outside {delivery, carryout} fails
\* with BadServiceMethod and leaves the user as it was; the method changes
\* only by a SetServiceMethod that succeeds; StoresNearMe on a user with no
\* method fails with NoServiceMethod and returns no stores.
C15_BadServiceMethodKeepsState ==
    [][/\ last'.op = "SetServiceMethod" /\ last'.m \notin ValidMethods =>
             last'.err = ErrBadService /\ user' = user
       /\ user'.ServiceMethod # user.ServiceMethod =>
             /\ last'.op = "SetServiceMethod" /\ last'.err = NoErr
             /\ user'.ServiceMethod = last'.m /\ last'.m \in ValidMethods
       /\ last'.op = "StoresNearMe" /\ user.ServiceMethod = "" =>
             last'.err = ErrNoServiceMethod /\ last'.stores = {}]_vars

\* as in TestUserStoresNearMe: a rejected SetServiceMethod, then StoresNearMe
C15_Witness ==
    /\ last.op = "StoresNearMe"
    /\ last.err = ErrNoServiceMethod
    /\ last.prevOp = "SetServiceMethod"
    /\ last.prevErr = ErrBadService
    /\ Len(user.Addresses) > 0

\* the keys under the order prefix and the part of the store they make up
OrderKeys(d) == {k \in DOMAIN d : HasPrefix(k, OrderPrefix)}
Orders(d) == [k \in OrderKeys(d) |-> d[k]]
KeyChanged(k) ==
    \/ (k \in DOMAIN db) # (k \in DOMAIN db')
    \/ k \in DOMAIN db /\ k \in DOMAIN db' /\ db'[k] # db[k]

\* C16: SetCurrentOrder, AddProducts, AddToppings, Validate and
\* ValidateOrder never create, change or remove a key under the order
\* prefix; the value at prefix+n changes only by a save of an order named n
\* or by DeleteOrder(n), which leave every other order key as it was.
C16_PersistsOnlyOnSave ==
    [][/\ last'.op \in {"SetCurrentOrder", "AddProducts", "AddToppings",
                        "Validate", "ValidateOrder"} => Orders(db') = Orders(db)
       /\ \A k \in OrderKeys(db) \cup OrderKeys(db') :
             KeyChanged(k) =>
                /\ last'.op \in Saves \cup {"DeleteOrder"}
                /\ k = OrderPrefix \o last'.name]_vars

\* the current order has been changed in memory and the store still holds
\* the document saved before, next to another order
C16_Witness ==
    /\ last.op \in {"AddProducts", "AddToppings"} /\ last.err = NoErr
    /\ CurrentOrder # NilOrder
    /\ StoredOrder(db, Name(CurrentOrder)) \notin {<<>>, Marshal(CurrentOrder)}
    /\ Cardinality(OrderKeys(db)) = 2

\* the options of the items of the order stored under name, <<>> when none
StoredItems(d, name) ==
    IF StoredOrder(d, name) = <<>> THEN <<>> ELSE StoredOrder(d, name)[1].Products

\* a run of cart --topping --product p --remove t that went through
RemovedTopping ==
    /\ last'.op = "cart" /\ last'.stage = "save" /\ last'.err = NoErr
    /\ last'.topping /\ last'.remove # <<>>

\* C17 as stated: cart --topping --product p --remove t leaves the toppings
\* of every item whose code is not p as they were, and takes t off the item
\* with code p when there is one.
C17_RemoveToppingHitsProduct ==
    [][RemovedTopping =>
          LET before == StoredItems(db, last'.name)
              after == StoredItems(db', last'.name)
          IN /\ Len(after) = Len(before)
             /\ \A i \in 1..Len(before) :
                   before[i].Code # last'.product => after[i] = before[i]
             /\ \A i \in 1..Len(before) :
                   (before[i].Code = last'.product
                      /\ \A j \in 1..(i - 1) : before[j].Code # last'.product)
                   => last'.remove \notin DOMAIN after[i].Options]_vars

\* C18: a cart command that fails before its save writes nothing: when
\* loading the order, the menu refresh, RemoveProduct, GetVariant, locating
\* the item or parsing a topping fails, at any position of the --add list,
\* the run returns the error without calling SaveOrder and every stored
\* order is what it was.
C18_FailedCommandWritesNothing ==
    [][last'.op = "cart" =>
          /\ last'.stage \in {"load", "refresh", "remove", "variant", "locate", "parse"}
                => last'.err # NoErr /\ ~last'.saved
          /\ last'.err # NoErr /\ last'.stage # "delete" => Orders(db') = Orders(db)
          /\ ~last'.saved /\ last'.stage # "delete" => Orders(db') = Orders(db)]_vars

\* the second code of --add is not on the menu: the first one was added in
\* memory and the stored order has not changed
C18_Witness ==
    /\ last.op = "cart" /\ last.stage = "variant"
    /\ last.add = <<Code1, CodeX>>
    /\ last.err = ErrVariantNotFound
    /\ ~last.saved
    /\ Len(StoredItems(db, NameA)) = 1

\* C19: after SaveAndReset, whether its save succeeded or failed, the cart
\* has no current order; with no current order AddProducts, AddToppings and
\* Validate fail with ErrNoCurrentOrder and change nothing; the cart gets a
\* current order again only by a SetCurrentOrder that succeeds.
C19_ResetDropsCurrentOrder ==
    [][/\ last'.op = "SaveAndReset" => CurrentOrder' = NilOrder
       /\ CurrentOrder = NilOrder
             /\ last'.op \in {"AddProducts", "AddToppings", "Validate"} =>
                /\ last'.err = ErrNoCurrentOrder
                /\ CurrentOrder' = NilOrder
                /\ db' = db
       /\ CurrentOrder = NilOrder /\ CurrentOrder' # NilOrder =>
             last'.op = "SetCurrentOrder" /\ last'.err = NoErr]_vars

\* SaveAndReset on a loaded order whose save failed: the order is dropped
C19_Witness ==
    /\ last.op = "SaveAndReset"
    /\ last.name = NameA
    /\ last.err = ErrStore
    /\ CurrentOrder = NilOrder

\* C20 as stated: for every topping spec and every item, addTopping of the
\* cart command and addTopping of the Cart either both reject the spec or
\* both upsert the same (topping code, placement, amount) entry.
C20_ParsersAgree ==
    \A p \in CurrentItems, s \in TopSpecs :
        LET inCmd == cmdAddTopping(s, p)
            inCart == addTopping(s, p)
        IN \/ inCmd.err # NoErr /\ inCart.err # NoErr
           \/ inCmd.err = NoErr /\ inCart.err = NoErr /\ inCmd.item = inCart.item

====
